---- MODULE Spec2Model ----
(***************************************************************************)
(* Game-state engine of the Guitar Fretboard Memorizer (src/script.js):    *)
(* the global `state` object, the countdown interval `gameTimer`, the      *)
(* delayed next-prompt callbacks created with setTimeout, and the part of  *)
(* the DOM the handlers depend on (which screen is rendered, which click   *)
(* handlers are attached, the two disabled-fret sliders).                  *)
(*                                                                         *)
(* Handlers are written as operators from a "world" record                 *)
(*   [state, gameTimer, timeouts, dom, out]                                *)
(* to the world after the handler has run, so that a handler calling       *)
(* another one (startTimer calls clearTimer, ...) reads like the source.   *)
(* Time is counted in units of TimeUnitMs; the 1000 ms interval and the    *)
(* 1500/2000 ms delays keep their ratios.                                  *)
(***************************************************************************)
EXTENDS Integers, Sequences, FiniteSets, TLC

VARIABLES
    state,      \* the global state object
    gameTimer,  \* the countdown interval: time to its next tick, ticks so far
    timeouts,   \* the pending next-prompt callbacks, in creation order
    dom,        \* rendered screen, attached click handlers, slider values
    modes,      \* the mode cards the learner uses in this run
    ev          \* the handler that ran last and what it signalled

vars == <<state, gameTimer, timeouts, dom, modes, ev>>

(***************************************************************************)
(* Bounds of the model                                                     *)
(***************************************************************************)
MaxTimeLimit == 2
MaxScore == 1
MaxErrors == 1
MaxPending == 1

(***************************************************************************)
(* Program constants                                                       *)
(***************************************************************************)
NOTES == <<"C", "C#", "D", "D#", "E", "F", "F#", "G", "G#", "A", "A#", "B">>

TRIAD_TYPES == [major      |-> [name |-> "Major",      intervals |-> <<0, 4, 7>>],
                minor      |-> [name |-> "Minor",      intervals |-> <<0, 3, 7>>],
                diminished |-> [name |-> "Diminished", intervals |-> <<0, 3, 6>>],
                augmented  |-> [name |-> "Augmented",  intervals |-> <<0, 4, 8>>]]

TriadTypeKeys == <<"major", "minor", "diminished", "augmented">>

STRING_TUNING == <<"E", "B", "G", "D", "A", "E">>

NUM_FRETS == 23

IntervalMs == 1000
SingleNoteDelayMs == 1500
FindAllDelayMs == 2000
TriadDelayMs == 2000
TimeOutDelayMs == 1500
SliderMax == 10

TimeUnitMs == IntervalMs \div 2
IntervalTicks == IntervalMs \div TimeUnitMs
SingleNoteDelay == SingleNoteDelayMs \div TimeUnitMs
FindAllDelay == FindAllDelayMs \div TimeUnitMs
TriadDelay == TriadDelayMs \div TimeUnitMs
TimeOutDelay == TimeOutDelayMs \div TimeUnitMs

\* gameTimer = null
NoTimer == [rem |-> 0 - 1, ticks |-> 0]
NullPos == [string |-> 0 - 1, fret |-> 0 - 1]
NullTriad == [root |-> "", type |-> "", typeName |-> "", notes |-> <<>>]

GameScreens == {"singleNote", "findAll", "triads"}

(***************************************************************************)
(* Sequence helpers (Array.prototype.indexOf / includes / filter)          *)
(***************************************************************************)
Range(s) == {s[i] : i \in 1..Len(s)}

Includes(s, x) == x \in Range(s)

\* 0-based index of the first occurrence, -1 when absent
IndexOf(s, x) ==
    IF Includes(s, x) THEN (CHOOSE i \in 1..Len(s) : s[i] = x /\ \A j \in 1..(i - 1) : s[j] # x) - 1
    ELSE 0 - 1

(***************************************************************************)
(* Music theory                                                            *)
(***************************************************************************)
\* getNoteAt with the modulus one short of the octave
getNoteAt_mod11(stringIndex, fretIndex) ==
    LET openNoteIndex == IndexOf(NOTES, STRING_TUNING[stringIndex + 1])
        noteIndex == (openNoteIndex + fretIndex) % 11
    IN NOTES[noteIndex + 1]

getNoteAt(stringIndex, fretIndex) ==
    LET openNoteIndex == IndexOf(NOTES, STRING_TUNING[stringIndex + 1])
        noteIndex == (openNoteIndex + fretIndex) % 12
    IN NOTES[noteIndex + 1]

isFretDisabled(st, fretIndex) == fretIndex \in st.disabledFrets

\* the (stringIndex, fretIndex) pairs in the order the two nested loops of
\* getAllPositions visit them: strings 0..5, and frets 1..NUM_FRETS-1 within
LoopOrder ==
    [k \in 1..(Len(STRING_TUNING) * (NUM_FRETS - 1)) |->
        [string |-> (k - 1) \div (NUM_FRETS - 1), fret |-> ((k - 1) % (NUM_FRETS - 1)) + 1]]

\* getAllPositions with the fret loop starting at the open string
getAllPositions_withOpen(st, note) ==
    LET Keep(pos) == ~isFretDisabled(st, pos.fret) /\ getNoteAt(pos.string, pos.fret) = note
        order == [k \in 1..(Len(STRING_TUNING) * NUM_FRETS) |->
                     [string |-> (k - 1) \div NUM_FRETS, fret |-> (k - 1) % NUM_FRETS]]
    IN SelectSeq(order, Keep)

getAllPositions(st, note) ==
    LET Keep(pos) == ~isFretDisabled(st, pos.fret) /\ getNoteAt(pos.string, pos.fret) = note
    IN SelectSeq(LoopOrder, Keep)

\* rnd is the value of Math.floor(Math.random() * NOTES.length)
getRandomNote(rnd) == NOTES[rnd + 1]

RECURSIVE FilterEnabled(_, _)
FilterEnabled(settings, i) ==
    IF i > Len(TriadTypeKeys) THEN <<>>
    ELSE (IF settings[TriadTypeKeys[i]] THEN <<TriadTypeKeys[i]>> ELSE <<>>)
         \o FilterEnabled(settings, i + 1)

\* enabledTriadTypes with Minor as the fallback of an empty selection
enabledTriadTypes_minorFallback(st) ==
    LET enabledTypes == FilterEnabled(st.triadSettings, 1)
    IN IF Len(enabledTypes) = 0 THEN <<"minor">> ELSE enabledTypes

enabledTriadTypes(st) ==
    LET enabledTypes == FilterEnabled(st.triadSettings, 1)
    IN IF Len(enabledTypes) = 0 THEN <<"major">> ELSE enabledTypes

\* getRandomTriad with every interval a semitone too wide
getRandomTriad_sharp(st, rndRoot, rndType) ==
    LET rootNote == getRandomNote(rndRoot)
        enabledTypes == enabledTriadTypes(st)
        triadType == enabledTypes[(rndType % Len(enabledTypes)) + 1]
        triadDef == TRIAD_TYPES[triadType]
        rootIndex == IndexOf(NOTES, rootNote)
    IN [root |-> rootNote,
        type |-> triadType,
        typeName |-> triadDef.name,
        notes |-> [i \in 1..3 |-> NOTES[((rootIndex + triadDef.intervals[i] + 1) % 12) + 1]]]

\* rndRoot, rndType are the two Math.floor(Math.random() * n) values
getRandomTriad(st, rndRoot, rndType) ==
    LET rootNote == getRandomNote(rndRoot)
        enabledTypes == enabledTriadTypes(st)
        triadType == enabledTypes[(rndType % Len(enabledTypes)) + 1]
        triadDef == TRIAD_TYPES[triadType]
        rootIndex == IndexOf(NOTES, rootNote)
    IN [root |-> rootNote,
        type |-> triadType,
        typeName |-> triadDef.name,
        notes |-> [i \in 1..3 |-> NOTES[((rootIndex + triadDef.intervals[i]) % 12) + 1]]]

\* rndPos is reduced to an index of rootPositions
selectRandomRootNotePosition(st, rootNote, rndPos) ==
    IF ~st.showTriadRootNote \/ rootNote = "" THEN NullPos
    ELSE LET rootPositions == getAllPositions(st, rootNote)
         IN IF Len(rootPositions) > 0
            THEN rootPositions[(rndPos % Len(rootPositions)) + 1]
            ELSE NullPos

(***************************************************************************)
(* Fret spacing.  The program computes with floating-point Numbers; here   *)
(* a Number x is the integer x * FixedOne, products and quotients being    *)
(* rounded to the nearest unit, so that every result carries an error of   *)
(* a few units of 1/FixedOne.                                              *)
(***************************************************************************)
FixedOne == 10000
\* 1 / r for r = Math.pow(2, 1/12): 0.943874...
InvR == 9439

RECURSIVE SumFirst(_, _)
\* the sum of the first n entries of a sequence of numbers
SumFirst(seq, n) == IF n = 0 THEN 0 ELSE SumFirst(seq, n - 1) + seq[n]

RECURSIVE InvRPow(_)
\* 1 / Math.pow(r, fret)
InvRPow(fret) ==
    IF fret = 0 THEN FixedOne
    ELSE (InvRPow(fret - 1) * InvR + FixedOne \div 2) \div FixedOne

\* x / total * 100
PercentOf(x, total) ==
    LET n == x * 100
    IN (n \div total) * FixedOne + ((n % total) * FixedOne + total \div 2) \div total

\* fret spaces of equal width
calculateFretSpacingPercentages_even ==
    [i \in 1..(NUM_FRETS - 1) |-> PercentOf(1, NUM_FRETS - 1)]

calculateFretSpacingPercentages ==
    LET currentPosition(fret) == FixedOne - InvRPow(fret)
        \* prevPosition is 0 for fret 1 and the position of the fret before
        \* for the others
        prevPosition(fret) == IF fret = 1 THEN 0 ELSE currentPosition(fret - 1)
        percentages == [fret \in 1..(NUM_FRETS - 1) |->
                            currentPosition(fret) - prevPosition(fret)]
        total == SumFirst(percentages, Len(percentages))
    IN [i \in 1..Len(percentages) |-> PercentOf(percentages[i], total)]

calculateFretCumulativePositions ==
    LET currentPosition(fret) == FixedOne - InvRPow(fret)
        \* cumulativePosition when the loop pushes for this fret: the left
        \* edge of its space
        cumulativePosition(fret) == IF fret = 1 THEN 0 ELSE currentPosition(fret - 1)
        positions == [fret \in 1..(NUM_FRETS - 1) |-> cumulativePosition(fret)]
        totalWidth == currentPosition(NUM_FRETS - 1)
    IN IF totalWidth > 0
       THEN [i \in 1..Len(positions) |-> PercentOf(positions[i], totalWidth)]
       ELSE positions

(***************************************************************************)
(* The world a handler runs in                                             *)
(***************************************************************************)
World == [state |-> state, gameTimer |-> gameTimer, timeouts |-> timeouts,
          dom |-> dom, out |-> "none"]

TimeLimitOn(w) == w.state.enableTimeLimit /\ w.state.timeLimit > 0

\* setTimeout(callback, ms): a pending callback with its remaining delay
setTimeout(w, kind, delay, wasShowingSolution) ==
    [w EXCEPT !.timeouts = Append(@, [kind |-> kind, rem |-> delay, wss |-> wasShowingSolution,
                                      stale |-> FALSE])]

(***************************************************************************)
(* Timer                                                                   *)
(***************************************************************************)
clearTimer(w) ==
    [w EXCEPT !.gameTimer = NoTimer,
              !.state.timeRemaining = IF TimeLimitOn(w) THEN w.state.timeLimit ELSE 0]

startTimer(w) ==
    LET c == clearTimer(w)
    IN IF ~c.state.enableTimeLimit \/ c.state.timeLimit = 0 THEN c
       ELSE [c EXCEPT !.state.timeRemaining = c.state.timeLimit,
                      !.gameTimer = [rem |-> IntervalTicks, ticks |-> 0]]

startTimerOnFirstClick(w) ==
    IF ~w.state.timerStarted /\ w.state.enableTimeLimit /\ w.state.timeLimit > 0
    THEN startTimer([w EXCEPT !.state.timerStarted = TRUE])
    ELSE w

\* handleTimeOut without the error count: the time-out goes unrecorded
handleTimeOut_noError(w) ==
    LET a == [w EXCEPT !.state.timerStarted = FALSE,
                       !.state.isFirstQuestion = FALSE,
                       !.out = "timeout"]
        wasShowingSolution == a.state.showSolution
    IN CASE a.state.currentScreen = "singleNote" -> setTimeout(a, "timeOutSingleNote", TimeOutDelay, wasShowingSolution)
         [] a.state.currentScreen = "findAll"    -> setTimeout(a, "timeOutFindAll", TimeOutDelay, wasShowingSolution)
         [] a.state.currentScreen = "triads"     -> setTimeout(a, "timeOutTriads", TimeOutDelay, wasShowingSolution)
         [] OTHER -> a

handleTimeOut(w) ==
    LET a == [w EXCEPT !.state.errors = @ + 1,
                       !.state.timerStarted = FALSE,
                       !.state.isFirstQuestion = FALSE,
                       !.out = "timeout"]
        wasShowingSolution == a.state.showSolution
    IN CASE a.state.currentScreen = "singleNote" -> setTimeout(a, "timeOutSingleNote", TimeOutDelay, wasShowingSolution)
         [] a.state.currentScreen = "findAll"    -> setTimeout(a, "timeOutFindAll", TimeOutDelay, wasShowingSolution)
         [] a.state.currentScreen = "triads"     -> setTimeout(a, "timeOutTriads", TimeOutDelay, wasShowingSolution)
         [] OTHER -> a

\* the callback of the setInterval created by startTimer
\* timerTick with the comparison off by one: the time-out comes a tick late
timerTick_late(w) ==
    LET a == [w EXCEPT !.state.timeRemaining = @ - 1,
                       !.gameTimer = [rem |-> IntervalTicks, ticks |-> @.ticks + 1],
                       !.out = "tick"]
    IN IF a.state.timeRemaining < 0 THEN handleTimeOut(clearTimer(a)) ELSE a

timerTick(w) ==
    LET a == [w EXCEPT !.state.timeRemaining = @ - 1,
                       !.gameTimer = [rem |-> IntervalTicks, ticks |-> @.ticks + 1],
                       !.out = "tick"]
    IN IF a.state.timeRemaining <= 0 THEN handleTimeOut(clearTimer(a)) ELSE a

(***************************************************************************)
(* Rendering: what the handlers read back from the DOM                     *)
(***************************************************************************)
SetMin(S) == CHOOSE x \in S : \A y \in S : x <= y
SetMax(S) == CHOOSE x \in S : \A y \in S : x >= y

\* updateDisabledFrets, the listener of both sliders (nested in renderMenu)
updateDisabledFrets(w) ==
    IF ~w.state.enableDisabledFrets THEN w
    ELSE LET start == w.dom.sliderStart
             end == w.dom.sliderEnd
             minFret == IF start <= end THEN start ELSE end
             maxFret == IF start <= end THEN end ELSE start
         IN [w EXCEPT !.state.disabledFrets = minFret..maxFret]

renderMenu(w) ==
    LET df == w.state.disabledFrets
        a == [w EXCEPT !.dom.screen = "menu",
                       !.dom.handlers = "none",
                       !.dom.sliderStart = IF df # {} THEN SetMin(df) ELSE 1,
                       !.dom.sliderEnd = IF df # {} THEN SetMax(df) ELSE 1]
    IN IF a.state.enableDisabledFrets THEN updateDisabledFrets(a) ELSE a

\* the part shared by renderSingleNoteGame, renderFindAllGame, renderTriadsGame:
\* app.innerHTML is replaced, the click handlers of the view mode are
\* attached, and timerStarted is reset
renderGame(w, mode) ==
    [w EXCEPT !.dom.screen = mode,
              !.dom.handlers = IF w.state.viewMode = "2d" THEN mode ELSE "3d",
              !.state.timerStarted = FALSE]

renderSingleNoteGame(w) == renderGame(w, "singleNote")
renderFindAllGame(w) == renderGame(w, "findAll")
renderTriadsGame(w) == renderGame(w, "triads")

renderTriadsSettings(w) == [w EXCEPT !.dom.screen = "triadsSettings", !.dom.handlers = "none"]

\* document.querySelector(sel) finds an element of the rendered screen
HasTargetNote(w) == w.dom.screen \in {"singleNote", "findAll"}
HasProgressInfo(w) == w.dom.screen = "findAll"
HasFretboardContainer(w) == w.dom.screen \in GameScreens

\* showSolution that renders the whole game screen again
showSolution_rerender(w) ==
    LET a == [w EXCEPT !.state.showSolution = ~@]
    IN IF a.state.currentScreen \in GameScreens THEN renderGame(a, a.state.currentScreen) ELSE a

showSolution(w) ==
    LET a == [w EXCEPT !.state.showSolution = ~@]
    IN IF a.state.viewMode = "2d" /\ HasFretboardContainer(a)
       THEN [a EXCEPT !.dom.handlers =
                 IF a.state.currentScreen \in GameScreens THEN a.state.currentScreen ELSE "none"]
       ELSE a

updateSolutionDisplay(w) ==
    IF w.state.showSolution
    THEN showSolution([showSolution(w) EXCEPT !.state.showSolution = TRUE])
    ELSE w

\* "if (wasShowingSolution) { state.showSolution = true; updateSolutionDisplay(); }"
restoreSolution(w, wasShowingSolution) ==
    IF wasShowingSolution
    THEN updateSolutionDisplay([w EXCEPT !.state.showSolution = TRUE])
    ELSE w

\* the exit button of the three game screens
exitGame(w) ==
    renderMenu([clearTimer(w) EXCEPT !.state.currentScreen = "menu",
                                     !.state.showSolution = FALSE,
                                     !.out = "exit"])

\* the back button of the triads settings screen
exitTriadsSettings(w) ==
    renderMenu([w EXCEPT !.state.currentScreen = "menu", !.out = "back"])

(***************************************************************************)
(* Starting a mode                                                         *)
(***************************************************************************)
\* startSingleNoteGame that keeps the score of the session before
startSingleNoteGame_keepsScore(w, rnd) ==
    renderSingleNoteGame([w EXCEPT !.state.currentScreen = "singleNote",
                                   !.state.targetNote = getRandomNote(rnd),
                                   !.state.errors = 0,
                                   !.state.isFirstQuestion = TRUE,
                                   !.state.showSolution = FALSE,
                                   !.out = "start"])

startSingleNoteGame(w, rnd) ==
    renderSingleNoteGame([w EXCEPT !.state.currentScreen = "singleNote",
                                   !.state.targetNote = getRandomNote(rnd),
                                   !.state.score = 0,
                                   !.state.errors = 0,
                                   !.state.isFirstQuestion = TRUE,
                                   !.state.showSolution = FALSE,
                                   !.out = "start"])

startFindAllGame(w, rnd) ==
    LET a == [w EXCEPT !.state.currentScreen = "findAll",
                       !.state.targetNote = getRandomNote(rnd)]
    IN renderFindAllGame([a EXCEPT !.state.allPositions = getAllPositions(a.state, a.state.targetNote),
                                   !.state.foundPositions = <<>>,
                                   !.state.score = 0,
                                   !.state.errors = 0,
                                   !.state.isFirstQuestion = TRUE,
                                   !.state.showSolution = FALSE,
                                   !.out = "start"])

startTriadsGame(w) ==
    renderTriadsSettings([w EXCEPT !.state.currentScreen = "triadsSettings", !.out = "settings"])

\* the new triad with its root hint: the four assignments that
\* startTriadsGameFromSettings and every triad advance callback share
newTriad(w, rndRoot, rndType, rndPos) ==
    LET triad == getRandomTriad(w.state, rndRoot, rndType)
        rootPos == selectRandomRootNotePosition(w.state, triad.root, rndPos)
        hint == w.state.showTriadRootNote /\ rootPos # NullPos
    IN [w EXCEPT !.state.targetTriad = triad,
                 !.state.clickedTriadNotes = IF hint THEN <<triad.root>> ELSE <<>>,
                 !.state.clickedTriadPositions = IF hint THEN <<rootPos>> ELSE <<>>,
                 !.state.triadRootNotePosition = rootPos]

startTriadsGameFromSettings(w, rndRoot, rndType, rndPos) ==
    LET a == [w EXCEPT !.state.currentScreen = "triads",
                       !.state.score = 0,
                       !.state.errors = 0,
                       !.state.isFirstQuestion = TRUE,
                       !.state.showSolution = FALSE,
                       !.out = "start"]
    IN renderTriadsGame(newTriad(a, rndRoot, rndType, rndPos))

\* the Start Game listener without its check of the enabled types
startGameBtn_noCheck(w, rndRoot, rndType, rndPos) ==
    startTriadsGameFromSettings(w, rndRoot, rndType, rndPos)

\* the click listener of the Start Game button of the settings screen
startGameBtn(w, rndRoot, rndType, rndPos) ==
    LET hasEnabled == \E i \in 1..Len(TriadTypeKeys) : w.state.triadSettings[TriadTypeKeys[i]]
    IN IF ~hasEnabled THEN [w EXCEPT !.out = "invalid"]
       ELSE startTriadsGameFromSettings(w, rndRoot, rndType, rndPos)

(***************************************************************************)
(* 3D click handlers and their delayed next-prompt callbacks               *)
(***************************************************************************)
SamePos(a, stringIndex, fretIndex) == a.string = stringIndex /\ a.fret = fretIndex

\* "clearTimer(); timerStarted = false; isFirstQuestion = false" of every
\* correct completion
completePrompt(w) ==
    [clearTimer(w) EXCEPT !.state.timerStarted = FALSE, !.state.isFirstQuestion = FALSE]

\* the tail of the 3D advance callbacks: auto-start unless first question
autoStart3D(w) ==
    IF w.state.enableTimeLimit /\ w.state.timeLimit > 0
    THEN (IF ~w.state.isFirstQuestion THEN startTimer(w) ELSE w)
    ELSE w

\* the tail of the 2D advance callbacks
autoStart2D(w) ==
    IF w.state.enableTimeLimit /\ w.state.timeLimit > 0 /\ ~w.state.isFirstQuestion
    THEN startTimer(w)
    ELSE w

\* autoStartAfterTimeOut that waits for a click again: the grace period
\* re-applied after a time-out
autoStartAfterTimeOut_waits(w) == w

\* the tail of the three handleTimeOut callbacks
autoStartAfterTimeOut(w) ==
    IF w.state.enableTimeLimit /\ w.state.timeLimit > 0 THEN startTimer(w) ELSE w

handleSingleNoteClick(w, stringIndex, fretIndex, note) ==
    LET a == startTimerOnFirstClick(w)
    IN IF note = a.state.targetNote
       THEN LET b == completePrompt([a EXCEPT !.state.score = @ + 1, !.out = "correct"])
                wasShowingSolution == b.state.showSolution
            IN setTimeout([b EXCEPT !.state.showSolution = FALSE],
                          "singleNoteAdvance3D", SingleNoteDelay, wasShowingSolution)
       ELSE [a EXCEPT !.state.errors = @ + 1, !.out = "wrong"]

singleNoteAdvance3D(w, wasShowingSolution, rnd) ==
    LET a == [w EXCEPT !.state.targetNote = getRandomNote(rnd), !.out = "advance"]
    IN IF ~HasTargetNote(a) THEN [a EXCEPT !.out = "threw"]
       ELSE autoStart3D(restoreSolution(a, wasShowingSolution))

\* "remaining" counted one short: the prompt completes a click early
handleFindAllClick_early(w, stringIndex, fretIndex, note) ==
    LET a == startTimerOnFirstClick(w)
        alreadyFound == \E i \in 1..Len(a.state.foundPositions) :
                            SamePos(a.state.foundPositions[i], stringIndex, fretIndex)
    IN IF alreadyFound THEN [a EXCEPT !.out = "already"]
       ELSE IF note = a.state.targetNote
       THEN LET b == [a EXCEPT !.state.foundPositions =
                          Append(@, [string |-> stringIndex, fret |-> fretIndex])]
                remaining == Len(b.state.allPositions) - Len(b.state.foundPositions) - 1
            IN IF remaining > 0
               THEN (IF HasProgressInfo(b) THEN [b EXCEPT !.out = "found"]
                                           ELSE [b EXCEPT !.out = "threw"])
               ELSE LET c == completePrompt([b EXCEPT !.state.score = @ + 10, !.out = "complete"])
                        wasShowingSolution == c.state.showSolution
                    IN setTimeout([c EXCEPT !.state.showSolution = FALSE],
                                  "findAllAdvance3D", FindAllDelay, wasShowingSolution)
       ELSE [a EXCEPT !.state.errors = @ + 1, !.out = "wrong"]

handleFindAllClick(w, stringIndex, fretIndex, note) ==
    LET a == startTimerOnFirstClick(w)
        alreadyFound == \E i \in 1..Len(a.state.foundPositions) :
                            SamePos(a.state.foundPositions[i], stringIndex, fretIndex)
    IN IF alreadyFound THEN [a EXCEPT !.out = "already"]
       ELSE IF note = a.state.targetNote
       THEN LET b == [a EXCEPT !.state.foundPositions =
                          Append(@, [string |-> stringIndex, fret |-> fretIndex])]
                remaining == Len(b.state.allPositions) - Len(b.state.foundPositions)
            IN IF remaining > 0
               THEN (IF HasProgressInfo(b) THEN [b EXCEPT !.out = "found"]
                                           ELSE [b EXCEPT !.out = "threw"])
               ELSE LET c == completePrompt([b EXCEPT !.state.score = @ + 10, !.out = "complete"])
                        wasShowingSolution == c.state.showSolution
                    IN setTimeout([c EXCEPT !.state.showSolution = FALSE],
                                  "findAllAdvance3D", FindAllDelay, wasShowingSolution)
       ELSE [a EXCEPT !.state.errors = @ + 1, !.out = "wrong"]

\* "targetNote = ...; allPositions = ...; foundPositions = []"
newFindAllTarget(w, rnd) ==
    LET a == [w EXCEPT !.state.targetNote = getRandomNote(rnd)]
    IN [a EXCEPT !.state.allPositions = getAllPositions(a.state, a.state.targetNote),
                 !.state.foundPositions = <<>>]

findAllAdvance3D(w, wasShowingSolution, rnd) ==
    LET a == [newFindAllTarget(w, rnd) EXCEPT !.out = "advance"]
    IN IF ~HasTargetNote(a) \/ ~HasProgressInfo(a) THEN [a EXCEPT !.out = "threw"]
       ELSE autoStart3D(restoreSolution(a, wasShowingSolution))

handleTriadClick(w, stringIndex, fretIndex, note) ==
    LET a == startTimerOnFirstClick(w)
        triad == a.state.targetTriad
    IN IF Includes(triad.notes, note)
       THEN IF ~Includes(a.state.clickedTriadNotes, note)
            THEN LET b == [a EXCEPT !.state.clickedTriadNotes = Append(@, note),
                                    !.state.clickedTriadPositions =
                                        Append(@, [string |-> stringIndex, fret |-> fretIndex]),
                                    !.state.triadRootNotePosition =
                                        IF @ # NullPos /\ SamePos(@, stringIndex, fretIndex)
                                        THEN NullPos ELSE @]
                 IN IF Len(b.state.clickedTriadNotes) = 3
                    THEN LET c == completePrompt([b EXCEPT !.state.score = @ + 1, !.out = "complete"])
                             wasShowingSolution == c.state.showSolution
                         IN setTimeout([c EXCEPT !.state.showSolution = FALSE],
                                       "triadAdvance3D", TriadDelay, wasShowingSolution)
                    ELSE [b EXCEPT !.out = "found"]
            ELSE [a EXCEPT !.out = "already"]
       ELSE [a EXCEPT !.state.errors = @ + 1, !.out = "wrong"]

triadAdvance3D(w, wasShowingSolution, rndRoot, rndType, rndPos) ==
    LET a == [newTriad(w, rndRoot, rndType, rndPos) EXCEPT !.out = "advance"]
    IN autoStart3D(restoreSolution(a, wasShowingSolution))

\* the click listener of the 3D canvas; note is the zone's userData.note
onFretClick(w, stringIndex, fretIndex) ==
    LET note == getNoteAt(stringIndex, fretIndex)
    IN IF isFretDisabled(w.state, fretIndex) THEN [w EXCEPT !.out = "rejected"]
       ELSE CASE w.state.currentScreen = "singleNote" -> handleSingleNoteClick(w, stringIndex, fretIndex, note)
              [] w.state.currentScreen = "findAll"    -> handleFindAllClick(w, stringIndex, fretIndex, note)
              [] w.state.currentScreen = "triads"     -> handleTriadClick(w, stringIndex, fretIndex, note)
              [] OTHER -> w

(***************************************************************************)
(* 2D (DOM fallback) click handlers and their callbacks                    *)
(***************************************************************************)
handleSingleNoteDOMClick(w, stringIndex, fretIndex) ==
    LET a == startTimerOnFirstClick(w)
        clickedNote == getNoteAt(stringIndex, fretIndex)
    IN IF isFretDisabled(a.state, fretIndex) THEN [a EXCEPT !.out = "rejected"]
       ELSE IF clickedNote = a.state.targetNote
       THEN LET b == completePrompt([a EXCEPT !.state.score = @ + 1, !.out = "correct"])
                wasShowingSolution == b.state.showSolution
            IN setTimeout(b, "singleNoteAdvance2D", SingleNoteDelay, wasShowingSolution)
       ELSE [a EXCEPT !.state.errors = @ + 1, !.out = "wrong"]

singleNoteAdvance2D(w, wasShowingSolution, rnd) ==
    LET a == renderSingleNoteGame([w EXCEPT !.state.targetNote = getRandomNote(rnd),
                                            !.out = "advance"])
    IN autoStart2D(restoreSolution(a, wasShowingSolution))

handleFindAllDOMClick(w, stringIndex, fretIndex) ==
    LET a == startTimerOnFirstClick(w)
        alreadyFound == \E i \in 1..Len(a.state.foundPositions) :
                            SamePos(a.state.foundPositions[i], stringIndex, fretIndex)
        clickedNote == getNoteAt(stringIndex, fretIndex)
    IN IF isFretDisabled(a.state, fretIndex) THEN [a EXCEPT !.out = "rejected"]
       ELSE IF alreadyFound THEN [a EXCEPT !.out = "already"]
       ELSE IF clickedNote = a.state.targetNote
       THEN LET b == [a EXCEPT !.state.foundPositions =
                          Append(@, [string |-> stringIndex, fret |-> fretIndex])]
                remaining == Len(b.state.allPositions) - Len(b.state.foundPositions)
            IN IF remaining > 0
               THEN renderFindAllGame([b EXCEPT !.out = "found"])
               ELSE LET c == completePrompt([renderFindAllGame(b) EXCEPT
                                                 !.state.score = @ + 10, !.out = "complete"])
                        wasShowingSolution == c.state.showSolution
                    IN setTimeout(c, "findAllAdvance2D", FindAllDelay, wasShowingSolution)
       ELSE [a EXCEPT !.state.errors = @ + 1, !.out = "wrong"]

findAllAdvance2D(w, wasShowingSolution, rnd) ==
    LET a == renderFindAllGame([newFindAllTarget(w, rnd) EXCEPT !.out = "advance"])
    IN autoStart2D(restoreSolution(a, wasShowingSolution))

handleTriadDOMClick(w, stringIndex, fretIndex) ==
    LET a == startTimerOnFirstClick(w)
        clickedNote == getNoteAt(stringIndex, fretIndex)
        triad == a.state.targetTriad
        pos == [string |-> stringIndex, fret |-> fretIndex]
    IN IF isFretDisabled(a.state, fretIndex) THEN [a EXCEPT !.out = "rejected"]
       ELSE IF Includes(triad.notes, clickedNote)
       THEN IF ~Includes(a.state.clickedTriadNotes, clickedNote)
            THEN LET b == [a EXCEPT !.state.clickedTriadNotes = Append(@, clickedNote),
                                    !.state.clickedTriadPositions = Append(@, pos),
                                    !.state.triadRootNotePosition =
                                        IF @ # NullPos /\ SamePos(@, stringIndex, fretIndex)
                                        THEN NullPos ELSE @]
                     \* both branches push the position a second time
                     b2 == [b EXCEPT !.state.clickedTriadPositions = Append(@, pos)]
                 IN IF Len(b.state.clickedTriadNotes) = 3
                    THEN LET c == completePrompt([b2 EXCEPT !.state.score = @ + 1, !.out = "complete"])
                             wasShowingSolution == c.state.showSolution
                         IN setTimeout(renderTriadsGame(c),
                                       "triadAdvance2D", TriadDelay, wasShowingSolution)
                    ELSE renderTriadsGame([b2 EXCEPT !.out = "found"])
            ELSE [a EXCEPT !.out = "already"]
       ELSE [a EXCEPT !.state.errors = @ + 1, !.out = "wrong"]

triadAdvance2D(w, wasShowingSolution, rndRoot, rndType, rndPos) ==
    LET a == renderTriadsGame([newTriad(w, rndRoot, rndType, rndPos) EXCEPT !.out = "advance"])
    IN autoStart2D(restoreSolution(a, wasShowingSolution))

(***************************************************************************)
(* The delayed callbacks of handleTimeOut                                  *)
(***************************************************************************)
timeOutSingleNote(w, wasShowingSolution, rnd) ==
    LET a == [w EXCEPT !.state.targetNote = getRandomNote(rnd), !.out = "advance"]
    IN IF ~HasTargetNote(a) THEN [a EXCEPT !.out = "threw"]
       ELSE autoStartAfterTimeOut(restoreSolution(a, wasShowingSolution))

timeOutFindAll(w, wasShowingSolution, rnd) ==
    LET a == [newFindAllTarget(w, rnd) EXCEPT !.out = "advance"]
    IN IF ~HasTargetNote(a) \/ ~HasProgressInfo(a) THEN [a EXCEPT !.out = "threw"]
       ELSE autoStartAfterTimeOut(restoreSolution(a, wasShowingSolution))

timeOutTriads(w, wasShowingSolution, rndRoot, rndType, rndPos) ==
    LET a == [newTriad(w, rndRoot, rndType, rndPos) EXCEPT !.out = "advance"]
    IN autoStartAfterTimeOut(restoreSolution(a, wasShowingSolution))

\* the callback a pending timeout record stands for
runCallback(w, t, rnd, rndType, rndPos) ==
    CASE t.kind = "singleNoteAdvance3D" -> singleNoteAdvance3D(w, t.wss, rnd)
      [] t.kind = "findAllAdvance3D"    -> findAllAdvance3D(w, t.wss, rnd)
      [] t.kind = "triadAdvance3D"      -> triadAdvance3D(w, t.wss, rnd, rndType, rndPos)
      [] t.kind = "singleNoteAdvance2D" -> singleNoteAdvance2D(w, t.wss, rnd)
      [] t.kind = "findAllAdvance2D"    -> findAllAdvance2D(w, t.wss, rnd)
      [] t.kind = "triadAdvance2D"      -> triadAdvance2D(w, t.wss, rnd, rndType, rndPos)
      [] t.kind = "timeOutSingleNote"   -> timeOutSingleNote(w, t.wss, rnd)
      [] t.kind = "timeOutFindAll"      -> timeOutFindAll(w, t.wss, rnd)
      [] t.kind = "timeOutTriads"       -> timeOutTriads(w, t.wss, rnd, rndType, rndPos)

(***************************************************************************)
(* Menu and settings listeners                                             *)
(***************************************************************************)
onViewModeToggle(w) ==
    [w EXCEPT !.state.viewMode = IF @ = "3d" THEN "2d" ELSE "3d", !.out = "setting"]

\* the time limit toggle that keeps the seconds when it is switched off
onEnableTimeLimitToggle_keepsLimit(w) ==
    LET a == [w EXCEPT !.state.enableTimeLimit = ~@, !.out = "setting"]
    IN IF a.state.enableTimeLimit /\ a.state.timeLimit = 0 THEN [a EXCEPT !.state.timeLimit = 1]
       ELSE a

onEnableTimeLimitToggle(w) ==
    LET a == [w EXCEPT !.state.enableTimeLimit = ~@, !.out = "setting"]
    IN IF ~a.state.enableTimeLimit THEN [a EXCEPT !.state.timeLimit = 0]
       ELSE IF a.state.timeLimit = 0 THEN [a EXCEPT !.state.timeLimit = 1]
       ELSE a

onTimeLimitSlider(w, value) ==
    IF ~w.state.enableTimeLimit THEN w
    ELSE [w EXCEPT !.state.timeLimit = value, !.out = "setting"]

\* the disabled-frets toggle that keeps the range when it is switched off
onEnableDisabledFretsToggle_keepsRange(w) ==
    [w EXCEPT !.state.enableDisabledFrets = ~@, !.out = "setting"]

onEnableDisabledFretsToggle(w) ==
    LET a == [w EXCEPT !.state.enableDisabledFrets = ~@, !.out = "setting"]
    IN IF ~a.state.enableDisabledFrets THEN [a EXCEPT !.state.disabledFrets = {}] ELSE a

onDisabledFretStart(w, value) ==
    updateDisabledFrets([w EXCEPT !.dom.sliderStart = value, !.out = "setting"])

onDisabledFretEnd(w, value) ==
    updateDisabledFrets([w EXCEPT !.dom.sliderEnd = value, !.out = "setting"])

onTriadTypeCheckbox(w, type) ==
    [w EXCEPT !.state.triadSettings[type] = ~@, !.out = "setting"]

onShowRootNoteToggle(w) ==
    [w EXCEPT !.state.showTriadRootNote = ~@, !.out = "setting"]

(***************************************************************************)
(* Inputs                                                                  *)
(***************************************************************************)
\* the frets that are clicked: the three highest strings (e, B, G) at the
\* three highest frets; with disabledFrets = 1..20 the lowest of them is
\* disabled
ClickStrings == {0, 1, 2}
ClickFrets == {NUM_FRETS - 3, NUM_FRETS - 2, NUM_FRETS - 1}

\* the values the two disabled-fret sliders are moved to
SliderInputs == {1, NUM_FRETS - 3}

\* the values of Math.floor(Math.random() * 12) that are explored: the notes
\* of the B string at the two clicked frets that stay enabled (G#, A)
RandomNoteIndices == {IndexOf(NOTES, getNoteAt(1, f)) : f \in {NUM_FRETS - 2, NUM_FRETS - 1}}
\* the values of Math.floor(Math.random() * enabledTypes.length) explored
RandomTypeIndices == {0}
RandomPosIndices == 0..1
\* the draws a new triad consumes: selectRandomRootNotePosition draws a
\* position only when the root note is shown
PosDraws == IF state.showTriadRootNote THEN RandomPosIndices ELSE {0}
\* the draws a delayed callback consumes: a note (root) index, and for a
\* triad also a type index and a position index
TypeDraws(kind) == IF kind \in {"triadAdvance3D", "triadAdvance2D", "timeOutTriads"} THEN RandomTypeIndices ELSE {0}
ToggledTriadTypes == {"major", "minor"}

(***************************************************************************)
(* State machine                                                           *)
(***************************************************************************)
InitState ==
    [currentScreen |-> "menu", targetNote |-> "", score |-> 0, errors |-> 0,
     foundPositions |-> <<>>, allPositions |-> <<>>, viewMode |-> "3d",
     targetTriad |-> NullTriad, clickedTriadNotes |-> <<>>, clickedTriadPositions |-> <<>>,
     triadRootNotePosition |-> NullPos,
     triadSettings |-> [major |-> TRUE, minor |-> TRUE, diminished |-> FALSE, augmented |-> FALSE],
     showTriadRootNote |-> FALSE, timeLimit |-> 0, timeRemaining |-> 0,
     enableTimeLimit |-> FALSE, disabledFrets |-> {}, enableDisabledFrets |-> FALSE,
     timerStarted |-> FALSE, isFirstQuestion |-> TRUE, showSolution |-> FALSE]

InitWorld ==
    renderMenu([state |-> InitState, gameTimer |-> NoTimer, timeouts |-> <<>>,
                dom |-> [screen |-> "none", handlers |-> "none", sliderStart |-> 1, sliderEnd |-> 1],
                out |-> "none"])

\* the world after the handler becomes the next state; ev records the
\* handler, its signal, the callback that fired (kind, stale) and whether a
\* fret was clicked since the session started
Apply(w, op, kind, stale, clicked) ==
    /\ state' = w.state
    /\ gameTimer' = w.gameTimer
    /\ timeouts' = w.timeouts
    /\ dom' = w.dom
    /\ modes' = modes
    /\ ev' = [op |-> op, out |-> w.out, kind |-> kind, stale |-> stale, clicked |-> clicked]

Handle(w, op) == Apply(w, op, "", FALSE, ev.clicked)

\* a callback that is still pending when a session starts belongs to an
\* earlier session
StartSession(w, op) ==
    Apply([w EXCEPT !.timeouts = [i \in 1..Len(@) |-> [@[i] EXCEPT !.stale = TRUE]]],
          op, "", FALSE, FALSE)

Click(w, op) == Apply(w, op, "", FALSE, TRUE)

InitEv == [op |-> "init", out |-> "none", kind |-> "", stale |-> FALSE, clicked |-> FALSE]

Init ==
    /\ state = InitWorld.state
    /\ gameTimer = InitWorld.gameTimer
    /\ timeouts = InitWorld.timeouts
    /\ dom = InitWorld.dom
    /\ modes = GameScreens
    /\ ev = InitEv

\* prompts completed so far: Find All scores 10 per prompt
Completed(w) == IF w.state.currentScreen = "findAll" THEN w.state.score \div 10 ELSE w.state.score

\* a handler runs when its outcome stays within the bounds of the model
WithinBounds(w) ==
    Completed(w) <= MaxScore /\ w.state.errors <= MaxErrors /\ Len(w.timeouts) <= MaxPending

ViewModeToggle == dom.screen = "menu" /\ Handle(onViewModeToggle(World), "viewModeToggle")

EnableTimeLimitToggle == dom.screen = "menu" /\ Handle(onEnableTimeLimitToggle(World), "enableTimeLimitToggle")

TimeLimitSlider ==
    /\ dom.screen = "menu" /\ state.enableTimeLimit
    /\ \E value \in 1..MaxTimeLimit : value <= SliderMax /\ Handle(onTimeLimitSlider(World, value), "timeLimitSlider")

EnableDisabledFretsToggle ==
    dom.screen = "menu" /\ Handle(onEnableDisabledFretsToggle(World), "enableDisabledFretsToggle")

DisabledFretStart ==
    /\ dom.screen = "menu" /\ state.enableDisabledFrets
    /\ \E value \in SliderInputs : Handle(onDisabledFretStart(World, value), "disabledFretStart")

DisabledFretEnd ==
    /\ dom.screen = "menu" /\ state.enableDisabledFrets
    /\ \E value \in SliderInputs : Handle(onDisabledFretEnd(World, value), "disabledFretEnd")

StartSingleNote ==
    /\ dom.screen = "menu" /\ "singleNote" \in modes
    /\ \E rnd \in RandomNoteIndices : StartSession(startSingleNoteGame(World, rnd), "startSingleNoteGame")

StartFindAll ==
    /\ dom.screen = "menu" /\ "findAll" \in modes
    /\ \E rnd \in RandomNoteIndices : StartSession(startFindAllGame(World, rnd), "startFindAllGame")

StartTriads ==
    dom.screen = "menu" /\ "triads" \in modes /\ Handle(startTriadsGame(World), "startTriadsGame")

TriadTypeCheckbox ==
    /\ dom.screen = "triadsSettings"
    /\ \E type \in ToggledTriadTypes : Handle(onTriadTypeCheckbox(World, type), "triadTypeCheckbox")

ShowRootNoteToggle ==
    dom.screen = "triadsSettings" /\ Handle(onShowRootNoteToggle(World), "showRootNoteToggle")

StartGameBtn ==
    /\ dom.screen = "triadsSettings"
    /\ \E rnd \in RandomNoteIndices, rndType \in RandomTypeIndices, rndPos \in PosDraws :
           LET w == startGameBtn(World, rnd, rndType, rndPos)
           IN IF w.out = "start" THEN StartSession(w, "startGameBtn") ELSE Handle(w, "startGameBtn")

BackBtn == dom.screen = "triadsSettings" /\ Handle(exitTriadsSettings(World), "backBtn")

ExitBtn == dom.screen \in GameScreens /\ Handle(exitGame(World), "exitBtn")

SolutionBtn ==
    dom.screen \in GameScreens /\ Handle([showSolution(World) EXCEPT !.out = "solution"], "solutionBtn")

\* the handler the 2D fretboard has attached to its frets
domClick(w, stringIndex, fretIndex) ==
    CASE w.dom.handlers = "singleNote" -> handleSingleNoteDOMClick(w, stringIndex, fretIndex)
      [] w.dom.handlers = "findAll"    -> handleFindAllDOMClick(w, stringIndex, fretIndex)
      [] w.dom.handlers = "triads"     -> handleTriadDOMClick(w, stringIndex, fretIndex)
      [] OTHER -> w

FretClick3D ==
    /\ dom.handlers = "3d"
    /\ \E s \in ClickStrings, f \in ClickFrets :
           LET w == onFretClick(World, s, f)
           IN WithinBounds(w) /\ Click(w, "onFretClick")

FretClick2D ==
    /\ dom.handlers \in GameScreens
    /\ \E s \in ClickStrings, f \in ClickFrets :
           LET w == domClick(World, s, f)
           IN WithinBounds(w) /\ Click(w, "domClick")

\* time passes by one unit when no timer is due
TimerDue == gameTimer.rem = 0 \/ \E i \in 1..Len(timeouts) : timeouts[i].rem = 0

Advance ==
    /\ gameTimer # NoTimer \/ Len(timeouts) > 0
    /\ ~TimerDue
    /\ Handle([World EXCEPT !.gameTimer = IF @ = NoTimer THEN @ ELSE [@ EXCEPT !.rem = @ - 1],
                            !.timeouts = [i \in 1..Len(timeouts) |-> [timeouts[i] EXCEPT !.rem = @ - 1]],
                            !.out = "time"], "advance")

IntervalFire ==
    /\ gameTimer.rem = 0
    /\ WithinBounds(timerTick(World))
    /\ Handle(timerTick(World), "timerTick")

RemoveAt(s, i) == [j \in 1..(Len(s) - 1) |-> IF j < i THEN s[j] ELSE s[j + 1]]

TimeoutFire ==
    \E i \in 1..Len(timeouts) :
        /\ timeouts[i].rem = 0
        /\ \E rnd \in RandomNoteIndices, rndType \in TypeDraws(timeouts[i].kind),
              rndPos \in (IF TypeDraws(timeouts[i].kind) = {0} THEN {0} ELSE PosDraws) :
               Apply(runCallback([World EXCEPT !.timeouts = RemoveAt(@, i)],
                                 timeouts[i], rnd, rndType, rndPos),
                     "timeout", timeouts[i].kind, timeouts[i].stale, ev.clicked)

Next ==
    \/ ViewModeToggle \/ EnableTimeLimitToggle \/ TimeLimitSlider
    \/ EnableDisabledFretsToggle \/ DisabledFretStart \/ DisabledFretEnd
    \/ StartSingleNote \/ StartFindAll \/ StartTriads
    \/ TriadTypeCheckbox \/ ShowRootNoteToggle \/ StartGameBtn \/ BackBtn
    \/ ExitBtn \/ SolutionBtn
    \/ FretClick3D \/ FretClick2D
    \/ Advance \/ IntervalFire \/ TimeoutFire

Spec == Init /\ [][Next]_vars

(***************************************************************************)
(* Sessions played with settings loaded from the cookies of an earlier run *)
(* (loadSettingsFromCookies): the time limit is on, the frets below the    *)
(* clicked ones are disabled, either view mode.  The learner keeps to one  *)
(* mode card and does not touch the settings or the Solution button.       *)
(***************************************************************************)
LoadedSettings(viewMode, timeLimit) ==
    [InitState EXCEPT !.viewMode = viewMode,
                      !.enableTimeLimit = TRUE,
                      !.timeLimit = timeLimit,
                      !.enableDisabledFrets = TRUE,
                      !.disabledFrets = 1..SetMin(ClickFrets)]

InitGame ==
    \E viewMode \in {"2d", "3d"}, timeLimit \in 1..MaxTimeLimit, mode \in GameScreens :
        LET w == renderMenu([InitWorld EXCEPT !.state = LoadedSettings(viewMode, timeLimit)])
        IN /\ state = w.state
           /\ gameTimer = w.gameTimer
           /\ timeouts = w.timeouts
           /\ dom = w.dom
           /\ modes = {mode}
           /\ ev = InitEv

NextGame ==
    \/ StartSingleNote \/ StartFindAll \/ StartTriads
    \/ StartGameBtn \/ BackBtn
    \/ ExitBtn
    \/ FretClick3D \/ FretClick2D
    \/ Advance \/ IntervalFire \/ TimeoutFire

SpecGame == InitGame /\ [][NextGame]_vars

(***************************************************************************)
(* Sessions of Single Note and Find All played in turn, with the same      *)
(* loaded settings: a callback of a session of one mode can be pending     *)
(* when a session of the other mode starts.                                *)
(***************************************************************************)
InitCross ==
    \E viewMode \in {"2d", "3d"}, timeLimit \in 1..MaxTimeLimit :
        LET w == renderMenu([InitWorld EXCEPT !.state = LoadedSettings(viewMode, timeLimit)])
        IN /\ state = w.state
           /\ gameTimer = w.gameTimer
           /\ timeouts = w.timeouts
           /\ dom = w.dom
           /\ modes = {"singleNote", "findAll"}
           /\ ev = InitEv

NextCross ==
    \/ StartSingleNote \/ StartFindAll
    \/ ExitBtn
    \/ FretClick3D \/ FretClick2D
    \/ Advance \/ IntervalFire \/ TimeoutFire

SpecCross == InitCross /\ [][NextCross]_vars

(***************************************************************************)
(* The menu: the settings are changed from their defaults and Find All is  *)
(* started with any of the twelve notes as its first target.               *)
(***************************************************************************)
AllNoteIndices == 0..(Len(NOTES) - 1)

StartFindAllAnyNote ==
    /\ dom.screen = "menu"
    /\ \E rnd \in AllNoteIndices : StartSession(startFindAllGame(World, rnd), "startFindAllGame")

InitMenu ==
    /\ state = InitWorld.state
    /\ gameTimer = InitWorld.gameTimer
    /\ timeouts = InitWorld.timeouts
    /\ dom = InitWorld.dom
    /\ modes = {"findAll"}
    /\ ev = InitEv

NextMenu ==
    \/ ViewModeToggle \/ EnableTimeLimitToggle \/ TimeLimitSlider
    \/ EnableDisabledFretsToggle \/ DisabledFretStart \/ DisabledFretEnd
    \/ StartFindAllAnyNote
    \/ ExitBtn

SpecMenu == InitMenu /\ [][NextMenu]_vars

(***************************************************************************)
(* Single Note sessions with room for one more prompt, error and pending   *)
(* callback than the other specifications have: a click or a time-out can  *)
(* schedule a callback while an earlier one is still pending.              *)
(***************************************************************************)
OverlapBounds(w) ==
    /\ Completed(w) <= MaxScore + 1
    /\ w.state.errors <= MaxErrors + 1
    /\ Len(w.timeouts) <= MaxPending + 1

FretClick3DOverlap ==
    /\ dom.handlers = "3d"
    /\ \E s \in ClickStrings, f \in ClickFrets :
           LET w == onFretClick(World, s, f)
           IN OverlapBounds(w) /\ Click(w, "onFretClick")

FretClick2DOverlap ==
    /\ dom.handlers \in GameScreens
    /\ \E s \in ClickStrings, f \in ClickFrets :
           LET w == domClick(World, s, f)
           IN OverlapBounds(w) /\ Click(w, "domClick")

IntervalFireOverlap ==
    /\ gameTimer.rem = 0
    /\ OverlapBounds(timerTick(World))
    /\ Handle(timerTick(World), "timerTick")

InitOverlap ==
    \E viewMode \in {"2d", "3d"}, timeLimit \in 1..MaxTimeLimit :
        LET w == renderMenu([InitWorld EXCEPT !.state = LoadedSettings(viewMode, timeLimit)])
        IN /\ state = w.state
           /\ gameTimer = w.gameTimer
           /\ timeouts = w.timeouts
           /\ dom = w.dom
           /\ modes = {"singleNote"}
           /\ ev = InitEv

NextOverlap ==
    \/ StartSingleNote
    \/ ExitBtn
    \/ FretClick3DOverlap \/ FretClick2DOverlap
    \/ Advance \/ IntervalFireOverlap \/ TimeoutFire

SpecOverlap == InitOverlap /\ [][NextOverlap]_vars

(***************************************************************************)
(* Sessions of Single Note and Triads played in turn, with the same loaded *)
(* settings.                                                               *)
(***************************************************************************)
InitCrossTriads ==
    \E viewMode \in {"2d", "3d"}, timeLimit \in 1..MaxTimeLimit :
        LET w == renderMenu([InitWorld EXCEPT !.state = LoadedSettings(viewMode, timeLimit)])
        IN /\ state = w.state
           /\ gameTimer = w.gameTimer
           /\ timeouts = w.timeouts
           /\ dom = w.dom
           /\ modes = {"singleNote", "triads"}
           /\ ev = InitEv

NextCrossTriads ==
    \/ StartSingleNote \/ StartTriads
    \/ StartGameBtn \/ BackBtn
    \/ ExitBtn
    \/ FretClick3D \/ FretClick2D
    \/ Advance \/ IntervalFire \/ TimeoutFire

SpecCrossTriads == InitCrossTriads /\ [][NextCrossTriads]_vars

(***************************************************************************)
(* The music-theory functions on their own: getNoteAt, getAllPositions and *)
(* getRandomTriad are called with every argument, from a state object with *)
(* any triad settings or with any of a family of disabled-fret sets; the   *)
(* two fret-spacing functions, which take no argument, are called as well. *)
(* ev.args holds the arguments of the call and ev.out its result.          *)
(***************************************************************************)
AllStrings == 0..(Len(STRING_TUNING) - 1)
\* fret arguments: the frets of the neck and the octave above each of them
TheoryFrets == 0..(NUM_FRETS - 1 + Len(NOTES))
\* disabledFrets: none, and the ranges between some slider positions
TheorySliderValues == {1, Len(NOTES), NUM_FRETS - 3, NUM_FRETS - 1}
TheoryDisabledSets == {{}} \cup {a..b : a, b \in TheorySliderValues}
TheoryTriadSettings == [{"major", "minor", "diminished", "augmented"} -> BOOLEAN]
TheoryTypeIndices == 0..(Len(TriadTypeKeys) - 1)

TheoryCall(op, args, out) ==
    /\ ev' = [op |-> op, out |-> out, kind |-> "", stale |-> FALSE, clicked |-> FALSE, args |-> args]
    /\ UNCHANGED <<state, gameTimer, timeouts, dom, modes>>

CallGetNoteAt ==
    \E s \in AllStrings, f \in TheoryFrets : TheoryCall("getNoteAt", <<s, f>>, getNoteAt(s, f))

CallGetAllPositions ==
    \E i \in AllNoteIndices :
        TheoryCall("getAllPositions", <<NOTES[i + 1]>>, getAllPositions(state, NOTES[i + 1]))

CallGetRandomTriad ==
    \E rndRoot \in AllNoteIndices, rndType \in TheoryTypeIndices :
        TheoryCall("getRandomTriad", <<rndRoot, rndType>>, getRandomTriad(state, rndRoot, rndType))

InitTheory ==
    /\ \/ \E settings \in TheoryTriadSettings :
              state = [InitState EXCEPT !.triadSettings = settings]
       \/ \E disabled \in TheoryDisabledSets :
              state = [InitState EXCEPT !.disabledFrets = disabled,
                                        !.enableDisabledFrets = disabled # {}]
    /\ gameTimer = NoTimer
    /\ timeouts = <<>>
    /\ dom = InitWorld.dom
    /\ modes = {}
    /\ ev = [op |-> "init", out |-> "none", kind |-> "", stale |-> FALSE, clicked |-> FALSE,
             args |-> <<>>]

CallFretSpacing ==
    TheoryCall("calculateFretSpacingPercentages", <<>>, calculateFretSpacingPercentages)

CallFretCumulative ==
    TheoryCall("calculateFretCumulativePositions", <<>>, calculateFretCumulativePositions)

NextTheory ==
    \/ CallGetNoteAt \/ CallGetAllPositions \/ CallGetRandomTriad
    \/ CallFretSpacing \/ CallFretCumulative

SpecTheory == InitTheory /\ [][NextTheory]_vars

(***************************************************************************)
(* Triads sessions with the root hint switched on in an earlier run        *)
(* (showTriadRootNote loaded from the cookies), in either view mode, with  *)
(* no fret disabled or with the frets below the clicked ones disabled; the *)
(* time limit is off (its default).                                        *)
(***************************************************************************)
\* the roots drawn when a session starts: the two target notes, and the note
\* of the G string at the lowest clicked fret (D#), which has no position left
\* when the frets up to that one are disabled
TriadRootIndices == RandomNoteIndices \cup {IndexOf(NOTES, getNoteAt(2, NUM_FRETS - 3))}
\* the values of Math.floor(Math.random() * enabledTypes.length) at a start
TriadTypeIndices == 0..1

StartGameBtnAnyRoot ==
    /\ dom.screen = "triadsSettings"
    /\ \E rnd \in TriadRootIndices, rndType \in TriadTypeIndices, rndPos \in PosDraws :
           LET w == startGameBtn(World, rnd, rndType, rndPos)
           IN IF w.out = "start" THEN StartSession(w, "startGameBtn") ELSE Handle(w, "startGameBtn")

InitTriads ==
    \E viewMode \in {"2d", "3d"}, disabled \in {{}, 1..SetMin(ClickFrets)} :
        LET w == renderMenu([InitWorld EXCEPT !.state.viewMode = viewMode,
                                              !.state.showTriadRootNote = TRUE,
                                              !.state.enableDisabledFrets = disabled # {},
                                              !.state.disabledFrets = disabled])
        IN /\ state = w.state
           /\ gameTimer = w.gameTimer
           /\ timeouts = w.timeouts
           /\ dom = w.dom
           /\ modes = {"triads"}
           /\ ev = InitEv

NextTriads ==
    \/ StartTriads
    \/ StartGameBtnAnyRoot \/ BackBtn
    \/ ExitBtn
    \/ FretClick3D \/ FretClick2D
    \/ Advance \/ TimeoutFire

SpecTriads == InitTriads /\ [][NextTriads]_vars

(***************************************************************************)
(* The triads settings screen: the Major and Minor checkboxes are changed  *)
(* between sessions, so that a session can be asked for with no type       *)
(* enabled; default settings otherwise, either view mode.                  *)
(***************************************************************************)
InitSettings ==
    \E viewMode \in {"2d", "3d"} :
        LET w == renderMenu([InitWorld EXCEPT !.state.viewMode = viewMode])
        IN /\ state = w.state
           /\ gameTimer = w.gameTimer
           /\ timeouts = w.timeouts
           /\ dom = w.dom
           /\ modes = {"triads"}
           /\ ev = InitEv

NextSettings ==
    \/ StartTriads
    \/ TriadTypeCheckbox \/ StartGameBtn \/ BackBtn
    \/ ExitBtn
    \/ FretClick3D \/ FretClick2D
    \/ Advance \/ TimeoutFire

SpecSettings == InitSettings /\ [][NextSettings]_vars

(***************************************************************************)
(* One session in which the learner also uses the Solution button: a mode  *)
(* is started once, with the loaded settings and a time limit of one       *)
(* second, and after Exit the learner stays in the menu.                   *)
(***************************************************************************)
\* no mode has been started since the page was loaded
NoSessionYet == state.targetNote = "" /\ state.targetTriad = NullTriad

FirstSingleNote == NoSessionYet /\ StartSingleNote
FirstFindAll == NoSessionYet /\ StartFindAll
FirstTriads == NoSessionYet /\ StartTriads
FirstGameBtn == NoSessionYet /\ StartGameBtn

InitOneSecond ==
    \E viewMode \in {"2d", "3d"}, mode \in GameScreens :
        LET w == renderMenu([InitWorld EXCEPT !.state = LoadedSettings(viewMode, 1)])
        IN /\ state = w.state
           /\ gameTimer = w.gameTimer
           /\ timeouts = w.timeouts
           /\ dom = w.dom
           /\ modes = {mode}
           /\ ev = InitEv

NextSolution ==
    \/ FirstSingleNote \/ FirstFindAll \/ FirstTriads
    \/ FirstGameBtn \/ BackBtn
    \/ ExitBtn \/ SolutionBtn
    \/ FretClick3D \/ FretClick2D
    \/ Advance \/ IntervalFire \/ TimeoutFire

SpecSolution == InitOneSecond /\ [][NextSolution]_vars

(***************************************************************************)
(* Sessions of one mode played one after the other with a time limit of    *)
(* one second.                                                             *)
(***************************************************************************)
SpecSessions == InitOneSecond /\ [][NextGame]_vars

(***************************************************************************)
(* The menu with the time limit slider moved over its whole range          *)
(* 1..SliderMax, and From and To moved to the ends and the middle of        *)
(* theirs.  Single Note is started and left again, which renders the menu  *)
(* anew.                                                                   *)
(***************************************************************************)
FretSliderValues == {1, 5, NUM_FRETS - 1}

TimeLimitSliderFull ==
    /\ dom.screen = "menu" /\ state.enableTimeLimit
    /\ \E value \in 1..SliderMax : Handle(onTimeLimitSlider(World, value), "timeLimitSlider")

DisabledFretStartFull ==
    /\ dom.screen = "menu" /\ state.enableDisabledFrets
    /\ \E value \in FretSliderValues : Handle(onDisabledFretStart(World, value), "disabledFretStart")

DisabledFretEndFull ==
    /\ dom.screen = "menu" /\ state.enableDisabledFrets
    /\ \E value \in FretSliderValues : Handle(onDisabledFretEnd(World, value), "disabledFretEnd")

InitSliders ==
    /\ state = InitWorld.state
    /\ gameTimer = InitWorld.gameTimer
    /\ timeouts = InitWorld.timeouts
    /\ dom = InitWorld.dom
    /\ modes = {"singleNote"}
    /\ ev = InitEv

NextSliders ==
    \/ EnableTimeLimitToggle \/ TimeLimitSliderFull
    \/ EnableDisabledFretsToggle \/ DisabledFretStartFull \/ DisabledFretEndFull
    \/ StartSingleNote
    \/ ExitBtn

SpecSliders == InitSliders /\ [][NextSliders]_vars

(***************************************************************************)
(* Single Note sessions with the time limit set in the menu between them:  *)
(* the toggle and the slider start from their defaults, in either view     *)
(* mode.                                                                   *)
(***************************************************************************)
InitTimer ==
    \E viewMode \in {"2d", "3d"} :
        LET w == renderMenu([InitWorld EXCEPT !.state.viewMode = viewMode])
        IN /\ state = w.state
           /\ gameTimer = w.gameTimer
           /\ timeouts = w.timeouts
           /\ dom = w.dom
           /\ modes = {"singleNote"}
           /\ ev = InitEv

NextTimer ==
    \/ EnableTimeLimitToggle \/ TimeLimitSlider
    \/ StartSingleNote
    \/ ExitBtn
    \/ FretClick3D \/ FretClick2D
    \/ Advance \/ IntervalFire \/ TimeoutFire

SpecTimer == InitTimer /\ [][NextTimer]_vars

(***************************************************************************)
(* Find All sessions with the default settings (no fret disabled, no time  *)
(* limit), in either view mode.  A prompt has up to 12 positions; they are *)
(* clicked in the order of allPositions, and a found position and the      *)
(* highest fret of the first string are clicked as well.                   *)
(***************************************************************************)
PromptClicks ==
    LET found == state.foundPositions
        IsUnfound(p) == \A i \in 1..Len(found) : found[i] # p
        unfound == SelectSeq(state.allPositions, IsUnfound)
    IN (IF unfound # <<>> THEN {unfound[1]} ELSE {})
       \cup (IF found # <<>> THEN {found[1]} ELSE {})
       \cup {[string |-> 0, fret |-> NUM_FRETS - 1]}

FindAllPromptClick ==
    /\ dom.handlers \in {"3d", "findAll"}
    /\ \E p \in PromptClicks :
           LET w == IF dom.handlers = "3d" THEN onFretClick(World, p.string, p.fret)
                    ELSE domClick(World, p.string, p.fret)
           IN /\ WithinBounds(w)
              /\ Click(w, IF dom.handlers = "3d" THEN "onFretClick" ELSE "domClick")

InitFindAll ==
    \E viewMode \in {"2d", "3d"} :
        LET w == renderMenu([InitWorld EXCEPT !.state.viewMode = viewMode])
        IN /\ state = w.state
           /\ gameTimer = w.gameTimer
           /\ timeouts = w.timeouts
           /\ dom = w.dom
           /\ modes = {"findAll"}
           /\ ev = InitEv

NextFindAll ==
    \/ StartFindAll
    \/ ExitBtn
    \/ FindAllPromptClick
    \/ Advance \/ TimeoutFire

SpecFindAll == InitFindAll /\ [][NextFindAll]_vars

(***************************************************************************)
(* Properties                                                              *)
(***************************************************************************)
ClickOps == {"onFretClick", "domClick"}
AdvanceKinds == {"singleNoteAdvance3D", "findAllAdvance3D", "triadAdvance3D",
                 "singleNoteAdvance2D", "findAllAdvance2D", "triadAdvance2D"}
TimeOutKinds == {"timeOutSingleNote", "timeOutFindAll", "timeOutTriads"}
FreshTimer == [rem |-> IntervalTicks, ticks |-> 0]

\* C1: a click on a disabled fret, in the 3D and in the 2D click path, is
\* rejected and changes nothing: the state object (score, errors, target,
\* found/clicked sets, timerStarted) is unchanged, no interval is created and
\* no callback is scheduled.
C1_DisabledClickChangesNothing ==
    [][(ev'.op \in ClickOps /\ ev'.out = "rejected")
        => (state' = state /\ gameTimer' = gameTimer /\ timeouts' = timeouts)]_vars

\* C2: with the time limit enabled, from the start of a session until the
\* first fret click of that session no countdown interval exists.
C2_NoCountdownBeforeFirstClick ==
    (state.currentScreen \in GameScreens /\ TimeLimitOn(World) /\ ~ev.clicked)
        => gameTimer = NoTimer

\* C3: whenever a delayed callback replaces the target, the countdown is
\* afterwards either stopped or freshly restarted from the full timeLimit.
C3_NoOldCountdownOnNewTarget ==
    [][ev'.op = "timeout"
        => (gameTimer' = NoTimer
            \/ (gameTimer' = FreshTimer /\ state'.timeRemaining = state'.timeLimit))]_vars

\* C4: a next-prompt callback scheduled in an earlier session changes neither
\* the target, the positions, the found/clicked sets nor the timer of the
\* session that is active when it fires.
C4_StaleCallbackChangesNothing ==
    [][(ev'.op = "timeout" /\ ev'.stale /\ state.currentScreen \in GameScreens)
        => /\ state'.targetNote = state.targetNote
           /\ state'.targetTriad = state.targetTriad
           /\ state'.allPositions = state.allPositions
           /\ state'.foundPositions = state.foundPositions
           /\ state'.clickedTriadNotes = state.clickedTriadNotes
           /\ state'.clickedTriadPositions = state.clickedTriadPositions
           /\ gameTimer' = gameTimer]_vars

\* C5: while currentScreen is 'menu' no countdown interval is running.
C5_NoCountdownInMenu == state.currentScreen = "menu" => gameTimer = NoTimer

\* what C6 compares after a click
Logic(w) ==
    <<w.state.score, w.state.errors, w.state.targetNote, w.state.targetTriad,
      w.state.foundPositions, w.state.clickedTriadNotes, w.state.clickedTriadPositions,
      w.state.timerStarted, w.gameTimer # NoTimer, w.state.timeRemaining>>

\* C6: from every reachable game state, the 3D handler and the 2D handler of
\* the active mode leave score, errors, target, found/clicked sets,
\* timerStarted, the running status of the timer and timeRemaining equal
\* for the same click.
C6_ViewModesAgree ==
    (dom.screen \in GameScreens /\ state.currentScreen = dom.screen)
        => \A s \in ClickStrings, f \in ClickFrets :
               Logic(onFretClick(World, s, f))
                   = Logic(domClick([World EXCEPT !.dom.handlers = dom.screen], s, f))

\* C7: while the countdown of the current prompt is running, a click that
\* does not complete the prompt neither restarts the interval nor changes
\* timeRemaining.
C7_ClickDoesNotRestartCountdown ==
    [][(ev'.op \in ClickOps /\ gameTimer # NoTimer /\ ev'.out \notin {"correct", "complete"})
        => (gameTimer' = gameTimer /\ state'.timeRemaining = state.timeRemaining)]_vars

\* the display delay after a correct completion in the active session
InDisplayDelay ==
    /\ state.currentScreen \in GameScreens
    /\ \E i \in 1..Len(timeouts) : timeouts[i].kind \in AdvanceKinds /\ ~timeouts[i].stale

\* C8: between a correct completion and the presentation of the next prompt
\* the countdown is stopped, whatever is clicked meanwhile.
C8_StoppedDuringDisplayDelay == InDisplayDelay => gameTimer = NoTimer

TimeOutKind(screen) ==
    CASE screen = "singleNote" -> "timeOutSingleNote"
      [] screen = "findAll"    -> "timeOutFindAll"
      [] screen = "triads"     -> "timeOutTriads"

C10_TimeOutOnNthTick ==
    [][ev'.op = "timerTick"
        => /\ state.timeRemaining = state.timeLimit - gameTimer.ticks
           /\ IF gameTimer.ticks + 1 = state.timeLimit
              THEN ev'.out = "timeout" /\ gameTimer' = NoTimer
              ELSE /\ ev'.out = "tick"
                   /\ state'.timeRemaining = state.timeRemaining - 1
                   /\ gameTimer' = [rem |-> IntervalTicks, ticks |-> gameTimer.ticks + 1]]_vars

C10_Witness ==
    ev.op = "timerTick" /\ ev.out = "timeout" /\ state.timeLimit >= 2 /\ gameTimer = NoTimer


\* C11: with the time limit on, before the first click of a session's first
\* prompt no countdown runs, and every advance callback that follows a correct
\* completion of the session starts the countdown at the full timeLimit when
\* it chooses the new target.
C11_FirstPromptWaitsLaterPromptsAutoStart ==
    [][/\ (state'.currentScreen \in GameScreens /\ state'.isFirstQuestion /\ ~ev'.clicked)
            => gameTimer' = NoTimer
       /\ (ev'.op = "timeout" /\ ev'.kind \in AdvanceKinds /\ ~ev'.stale
             /\ state.currentScreen \in GameScreens)
            => (gameTimer' = FreshTimer /\ state'.timeRemaining = state'.timeLimit)]_vars

C13_GameEndsOnTimeOut ==
    [][(ev'.op = "timerTick" /\ ev'.out = "timeout" /\ state.currentScreen \in GameScreens)
         => state'.currentScreen \notin GameScreens]_vars


\* foundPositions covers allPositions: the Find All target is completed
Covers(st) == Range(st.allPositions) \subseteq Range(st.foundPositions)

\* C14: in Find All the score changes only by the completion bonus: a click
\* changes score by +10 exactly when it is the click that makes foundPositions
\* cover allPositions, and by 0 otherwise (also on a target that is already
\* completed); nothing but a click changes the score within a session.
C14_FindAllBonusExactlyOnce ==
    [][/\ (state.currentScreen = "findAll" /\ ev'.op \in ClickOps)
            => /\ state'.score \in {state.score, state.score + 10}
               /\ (state'.score = state.score + 10)
                      <=> (~Covers(state) /\ Covers(state')
                             /\ state'.foundPositions # state.foundPositions)
       /\ (state.currentScreen = "findAll" /\ ev'.op \in {"timeout", "timerTick", "advance"})
            => state'.score = state.score]_vars

\* C15: in Find All a click on a position that is already in foundPositions
\* changes nothing: score, errors, foundPositions, allPositions, target,
\* timerStarted, the interval and timeRemaining are as before.
C15_AlreadyFoundIsNoOp ==
    [][(state.currentScreen = "findAll" /\ ev'.op \in ClickOps /\ ev'.out = "already")
         => /\ state'.score = state.score /\ state'.errors = state.errors
            /\ state'.foundPositions = state.foundPositions
            /\ state'.allPositions = state.allPositions
            /\ state'.targetNote = state.targetNote
            /\ state'.timerStarted = state.timerStarted
            /\ gameTimer' = gameTimer
            /\ state'.timeRemaining = state.timeRemaining]_vars

\* C16: foundPositions is always a subset of allPositions, and while Find All
\* is active allPositions is getAllPositions(targetNote) for the current
\* target and disabled frets.
C16_FoundWithinAllPositions ==
    /\ Range(state.foundPositions) \subseteq Range(state.allPositions)
    /\ state.currentScreen = "findAll"
           => state.allPositions = getAllPositions(state, state.targetNote)


\* C17: for every disabled-fret range set in the menu, an active Find All
\* target has at least one position to find: allPositions is not empty.
C17_FindAllTargetHasPositions ==
    state.currentScreen = "findAll" => state.allPositions # <<>>


\* what the click handler attached to the fretboard makes of a click
clickAt(w, stringIndex, fretIndex) ==
    IF w.dom.handlers = "3d" THEN onFretClick(w, stringIndex, fretIndex)
    ELSE domClick(w, stringIndex, fretIndex)

\* the clicked positions on enabled frets
EnabledClicks ==
    {p \in ClickStrings \X ClickFrets : ~isFretDisabled(state, p[2])}

SingleNoteAdvanceKinds == {"singleNoteAdvance3D", "singleNoteAdvance2D"}

\* C18: in Single Note a click on an enabled position of the target note adds
\* exactly 1 to score and leaves errors and targetNote; while the callback it
\* schedules is pending targetNote stays, and the callback replaces it by a
\* note of NOTES.
C18_SingleNoteCorrectClick ==
    [][/\ (state.currentScreen = "singleNote" /\ dom.handlers # "none")
            => \A p \in EnabledClicks :
                   getNoteAt(p[1], p[2]) = state.targetNote
                       => LET w == clickAt(World, p[1], p[2])
                          IN /\ w.state.score = state.score + 1
                             /\ w.state.errors = state.errors
                             /\ w.state.targetNote = state.targetNote
                             /\ Len(w.timeouts) = Len(timeouts) + 1
                             /\ w.timeouts[Len(w.timeouts)].kind \in SingleNoteAdvanceKinds
                             /\ w.timeouts[Len(w.timeouts)].rem = SingleNoteDelay
       /\ (state.currentScreen = "singleNote"
             /\ \E i \in 1..Len(timeouts) :
                    /\ timeouts[i].kind \in SingleNoteAdvanceKinds
                    /\ ~timeouts[i].stale /\ timeouts[i].rem > 0)
            => state'.targetNote = state.targetNote
       /\ (state.currentScreen = "singleNote" /\ ev'.op = "timeout"
             /\ ev'.kind \in SingleNoteAdvanceKinds /\ ~ev'.stale)
            => state'.targetNote \in Range(NOTES)]_vars

\* C19: in Single Note a click on an enabled position of another note adds
\* exactly 1 to errors, leaves score and targetNote, and schedules no
\* callback.
C19_SingleNoteWrongClick ==
    (state.currentScreen = "singleNote" /\ dom.handlers # "none")
        => \A p \in EnabledClicks :
               getNoteAt(p[1], p[2]) # state.targetNote
                   => LET w == clickAt(World, p[1], p[2])
                      IN /\ w.state.errors = state.errors + 1
                         /\ w.state.score = state.score
                         /\ w.state.targetNote = state.targetNote
                         /\ w.timeouts = timeouts

\* C20: in Triads a click on an enabled position whose note is not in
\* targetTriad.notes adds exactly 1 to errors and leaves score, targetTriad,
\* clickedTriadNotes and clickedTriadPositions.
C20_TriadWrongClick ==
    (state.currentScreen = "triads" /\ dom.handlers # "none")
        => \A p \in EnabledClicks :
               ~Includes(state.targetTriad.notes, getNoteAt(p[1], p[2]))
                   => LET w == clickAt(World, p[1], p[2])
                      IN /\ w.state.errors = state.errors + 1
                         /\ w.state.score = state.score
                         /\ w.state.targetTriad = state.targetTriad
                         /\ w.state.clickedTriadNotes = state.clickedTriadNotes
                         /\ w.state.clickedTriadPositions = state.clickedTriadPositions


\* C27: getRandomTriad called with no triad type enabled returns, for every
\* root, the Major triad of that root: the notes 0, 4 and 7 semitones above
\* it, never an absent or empty triad.
C27_NoTypeFallsBackToMajor ==
    (ev.op = "getRandomTriad" /\ \A t \in DOMAIN state.triadSettings : ~state.triadSettings[t])
        => LET root == ev.args[1]
           IN /\ ev.out.type = "major" /\ ev.out.typeName = "Major"
              /\ ev.out.root = NOTES[root + 1]
              /\ ev.out.notes = <<NOTES[(root % 12) + 1], NOTES[((root + 4) % 12) + 1],
                                  NOTES[((root + 7) % 12) + 1]>>

C27_Witness ==
    /\ ev.op = "getRandomTriad" /\ \A t \in DOMAIN state.triadSettings : ~state.triadSettings[t]
    /\ ev.args[1] = 11 /\ ev.out.type = "major" /\ ev.out.notes = <<"B", "D#", "F#">>

\* C28: for every root and each of the four triad types, the notes of the
\* triad getRandomTriad returns are (root + i) mod 12 for the declared
\* intervals i of its type (Major 0,4,7; Minor 0,3,7; Diminished 0,3,6;
\* Augmented 0,4,8), in that order: three distinct pitch classes, root first.
C28_TriadNotesFollowIntervals ==
    ev.op = "getRandomTriad"
        => LET root == ev.args[1]
               type == ev.out.type
               declared == CASE type = "major"      -> <<0, 4, 7>>
                             [] type = "minor"      -> <<0, 3, 7>>
                             [] type = "diminished" -> <<0, 3, 6>>
                             [] type = "augmented"  -> <<0, 4, 8>>
           IN /\ type \in {"major", "minor", "diminished", "augmented"}
              /\ ev.out.notes = [i \in 1..3 |-> NOTES[((root + declared[i]) % 12) + 1]]
              /\ ev.out.root = NOTES[root + 1]
              /\ ev.out.notes[1] = ev.out.root
              /\ Cardinality(Range(ev.out.notes)) = 3

C28_Witness ==
    /\ ev.op = "getRandomTriad" /\ ev.out.type = "augmented" /\ ev.out.root = "A"
    /\ ev.out.notes = <<"A", "C#", "F">>

\* C29: for every note and disabledFrets set, getAllPositions(note) is exactly
\* the positions (string 0..5, fret 1..22) on a fret that is not disabled
\* whose note is the given one, each once, ordered by string and then by fret;
\* for C with no fret disabled there are 12 of them.
C29_AllPositionsExactAndOrdered ==
    ev.op = "getAllPositions"
        => LET note == ev.args[1]
               r == ev.out
               expected == {pos \in [string : 0..5, fret : 1..22] :
                                pos.fret \notin state.disabledFrets
                                    /\ getNoteAt(pos.string, pos.fret) = note}
           IN /\ Range(r) = expected
              /\ Len(r) = Cardinality(expected)
              /\ \A i, j \in 1..Len(r) :
                     i < j => \/ r[i].string < r[j].string
                              \/ r[i].string = r[j].string /\ r[i].fret < r[j].fret
              /\ (state.disabledFrets = {} /\ note = "C") => Len(r) = 12

C29_Witness ==
    /\ ev.op = "getAllPositions" /\ ev.args = <<"C">> /\ state.disabledFrets = {}
    /\ Len(ev.out) = 12 /\ ev.out[1] = [string |-> 0, fret |-> 8]

\* C30: for every string and every fret f of 0..22, getNoteAt(string, f) is
\* getNoteAt(string, f + 12), and it is the pitch class
\* (open note of the string + f) mod 12, the open notes being E, B, G, D, A, E.
C30_NoteAtPeriodic ==
    (ev.op = "getNoteAt" /\ ev.args[2] \in 0..22)
        => LET s == ev.args[1]
               f == ev.args[2]
               open == <<4, 11, 7, 2, 9, 4>>
           IN /\ ev.out = getNoteAt(s, f + 12)
              /\ ev.out = NOTES[((open[s + 1] + f) % 12) + 1]

C30_Witness ==
    /\ ev.op = "getNoteAt" /\ ev.args = <<1, 22>> /\ ev.out = "A"
    /\ getNoteAt(1, 22 + 12) = "A"


\* every fret that is clicked
AllClicks == ClickStrings \X ClickFrets

\* C21: in Triads a click whose note is already in clickedTriadNotes, the
\* pre-marked root hint included, is not counted as an error and changes
\* none of errors, score, clickedTriadNotes, clickedTriadPositions and
\* triadRootNotePosition.
C21_RepeatTriadClickIsNoOp ==
    (state.currentScreen = "triads" /\ dom.handlers # "none")
        => \A p \in AllClicks :
               Includes(state.clickedTriadNotes, getNoteAt(p[1], p[2]))
                   => LET w == clickAt(World, p[1], p[2])
                      IN /\ w.state.errors = state.errors
                         /\ w.state.score = state.score
                         /\ w.state.clickedTriadNotes = state.clickedTriadNotes
                         /\ w.state.clickedTriadPositions = state.clickedTriadPositions
                         /\ w.state.triadRootNotePosition = state.triadRootNotePosition


\* the pitch classes of the target triad that are found
FoundTriadNotes(st) == Range(st.clickedTriadNotes) \cap Range(st.targetTriad.notes)

TriadAdvanceKinds == {"triadAdvance3D", "triadAdvance2D"}

\* C22: in Triads the score grows by exactly 1 exactly at the click that
\* brings the number of distinct found pitch classes of targetTriad to 3,
\* wherever they were clicked, and by 0 at every other click; the callback
\* that follows generates a new triad and resets both clicked sets, to the
\* root and one position of it if the root hint is on and to empty otherwise.
C22_TriadScoredByPitchClass ==
    [][/\ (state.currentScreen = "triads" /\ ev'.op \in ClickOps)
            => /\ state'.score \in {state.score, state.score + 1}
               /\ (state'.score = state.score + 1)
                      <=> (Cardinality(FoundTriadNotes(state)) < 3
                             /\ Cardinality(FoundTriadNotes(state')) = 3)
       /\ (state.currentScreen = "triads" /\ ev'.op = "timeout"
             /\ ev'.kind \in TriadAdvanceKinds /\ ~ev'.stale)
            => /\ state'.targetTriad.root \in Range(NOTES)
               /\ Len(state'.targetTriad.notes) = 3
               /\ state'.score = state.score
               /\ IF state'.showTriadRootNote /\ state'.triadRootNotePosition # NullPos
                  THEN /\ state'.clickedTriadNotes = <<state'.targetTriad.root>>
                       /\ state'.clickedTriadPositions = <<state'.triadRootNotePosition>>
                  ELSE /\ state'.clickedTriadNotes = <<>>
                       /\ state'.clickedTriadPositions = <<>>]_vars


\* a triad was generated by the handler that ran last: a session start or a
\* callback that replaces the triad
TriadGenerated ==
    \/ ev.op = "startGameBtn" /\ ev.out = "start"
    \/ ev.op = "timeout" /\ ev.out = "advance"
         /\ ev.kind \in TriadAdvanceKinds \cup {"timeOutTriads"}

\* C23: with showTriadRootNote on, right after a Triads session starts and
\* after every regeneration of the triad, clickedTriadNotes is exactly the
\* root of targetTriad and clickedTriadPositions is exactly one position, on
\* an enabled fret, whose note is the root, whatever frets are disabled.
C23_RootHintPreSeeded ==
    (state.currentScreen = "triads" /\ state.showTriadRootNote /\ TriadGenerated)
        => /\ state.clickedTriadNotes = <<state.targetTriad.root>>
           /\ Len(state.clickedTriadPositions) = 1
           /\ ~isFretDisabled(state, state.clickedTriadPositions[1].fret)
           /\ getNoteAt(state.clickedTriadPositions[1].string, state.clickedTriadPositions[1].fret)
                  = state.targetTriad.root


\* score, errors, targets, positions, found/clicked sets and the timer
PlayState(w) ==
    <<w.state.score, w.state.errors, w.state.targetNote, w.state.targetTriad,
      w.state.allPositions, w.state.foundPositions,
      w.state.clickedTriadNotes, w.state.clickedTriadPositions,
      w.state.timerStarted, w.state.timeRemaining, w.gameTimer>>

\* C24: the Solution button changes only the showSolution flag: score,
\* errors, targetNote, targetTriad, allPositions, foundPositions, the clicked
\* sets and the timer (timerStarted, timeRemaining, the interval) are as
\* before, in every mode; the same holds for updateSolutionDisplay().
C24_ShowSolutionOnlyTogglesFlag ==
    [][/\ ev'.op = "solutionBtn"
            => /\ state'.showSolution = ~state.showSolution
               /\ [state' EXCEPT !.showSolution = state.showSolution] = state
               /\ gameTimer' = gameTimer /\ timeouts' = timeouts
       /\ PlayState(showSolution(World)) = PlayState(World)
       /\ PlayState(updateSolutionDisplay([World EXCEPT !.state.showSolution = TRUE]))
              = PlayState(World)]_vars

C24_Witness ==
    /\ ev.op = "solutionBtn" /\ state.showSolution
    /\ state.currentScreen \in GameScreens
    /\ state.timerStarted /\ gameTimer # NoTimer /\ state.errors = 1

\* C25: right after startSingleNoteGame, startFindAllGame or
\* startTriadsGameFromSettings the session is reset: score = 0, errors = 0,
\* isFirstQuestion = true, timerStarted = false and showSolution = false,
\* whatever the session before left behind.
C25_StartResetsSession ==
    [][(ev'.op \in {"startSingleNoteGame", "startFindAllGame", "startGameBtn"} /\ ev'.out = "start")
         => /\ state'.score = 0 /\ state'.errors = 0
            /\ state'.isFirstQuestion /\ ~state'.timerStarted /\ ~state'.showSolution
            /\ state'.currentScreen \in GameScreens]_vars

\* a session starts while the callback of a completed prompt of the session
\* before is still pending
C25_Witness ==
    /\ ev.op \in {"startSingleNoteGame", "startFindAllGame", "startGameBtn"} /\ ev.out = "start"
    /\ state.score = 0 /\ state.errors = 0 /\ ~state.timerStarted
    /\ \E i \in 1..Len(timeouts) : timeouts[i].stale /\ timeouts[i].kind \in AdvanceKinds


\* C26: a Triads session is never entered with no triad type enabled:
\* while currentScreen is 'triads' at least one of the four settings is true,
\* and the type of the target triad is one of the enabled types.
C26_TriadsNeedsAnEnabledType ==
    state.currentScreen = "triads"
        => /\ \E t \in {"major", "minor", "diminished", "augmented"} : state.triadSettings[t]
           /\ state.targetTriad.type \in {"major", "minor", "diminished", "augmented"}
           /\ state.triadSettings[state.targetTriad.type]

\* Start Game pressed with nothing enabled: the settings screen stays
C26_Witness ==
    /\ ev.op = "startGameBtn" /\ ev.out = "invalid"
    /\ \A t \in DOMAIN state.triadSettings : ~state.triadSettings[t]
    /\ state.currentScreen = "triadsSettings"


\* C31: under every sequence of menu actions from the defaults,
\* enableTimeLimit is true exactly when timeLimit is an integer of 1..10 and
\* false exactly when timeLimit is 0.
C31_TimeLimitConsistent ==
    /\ state.timeLimit \in 0..10
    /\ state.enableTimeLimit <=> state.timeLimit \in 1..10
    /\ ~state.enableTimeLimit <=> state.timeLimit = 0

\* the slider at its upper end
C31_Witness ==
    ev.op = "timeLimitSlider" /\ state.enableTimeLimit /\ state.timeLimit = 10

\* C32: under every sequence of menu actions from the defaults, disabledFrets
\* is empty or a contiguous inclusive range within 1..22, and it is empty
\* whenever enableDisabledFrets is false.
C32_DisabledFretsIsARange ==
    /\ \/ state.disabledFrets = {}
       \/ \E a, b \in 1..22 : a <= b /\ state.disabledFrets = a..b
    /\ ~state.enableDisabledFrets => state.disabledFrets = {}

\* the toggle switched off after a range was set with From above To
C32_Witness ==
    /\ ev.op = "enableDisabledFretsToggle" /\ ~state.enableDisabledFrets
    /\ state.disabledFrets = {} /\ dom.sliderStart = 22 /\ dom.sliderEnd = 5


\* C38: whenever the Disable Frets toggle is on, disabledFrets is the
\* inclusive range between the From and To sliders shown in the menu, and
\* leaving a game for the menu never changes which frets are disabled.
C38_DisabledFretsMatchSliders ==
    [][/\ (dom'.screen = "menu" /\ state'.enableDisabledFrets)
            => state'.disabledFrets =
                   (IF dom'.sliderStart <= dom'.sliderEnd
                    THEN dom'.sliderStart..dom'.sliderEnd
                    ELSE dom'.sliderEnd..dom'.sliderStart)
       /\ ev'.op = "exitBtn" => state'.disabledFrets = state.disabledFrets]_vars


\* the rounding error allowed in a sum of n fixed-point numbers
FixedTolerance(n) == n + 1
FixedAbs(x) == IF x < 0 THEN 0 - x ELSE x
\* (1 - r^-n) - (1 - r^-(n-1))
FretSpaceFormula(n) == (FixedOne - InvRPow(n)) - (FixedOne - InvRPow(n - 1))

\* C33: calculateFretSpacingPercentages returns 22 entries that sum to 100,
\* are strictly decreasing and are each proportional to
\* (1 - r^-n) - (1 - r^-(n-1)); the entry of index i (from 0) of
\* calculateFretCumulativePositions is the sum of the first i percentages.
C33_FretSpacingAgrees ==
    /\ ev.op = "calculateFretSpacingPercentages" =>
           LET p == ev.out
               span == SumFirst([n \in 1..22 |-> FretSpaceFormula(n)], 22)
           IN /\ Len(p) = 22
              /\ FixedAbs(SumFirst(p, 22) - 100 * FixedOne) <= FixedTolerance(22)
              /\ \A n \in 1..21 : p[n] > p[n + 1]
              /\ \A n \in 1..22 :
                     FixedAbs(p[n] * span - FretSpaceFormula(n) * 100 * FixedOne) <= span
    /\ ev.op = "calculateFretCumulativePositions" =>
           LET c == ev.out
               p == calculateFretSpacingPercentages
           IN /\ Len(c) = 22
              /\ \A i \in 0..21 : FixedAbs(c[i + 1] - SumFirst(p, i)) <= FixedTolerance(i)

C33_Witness ==
    /\ ev.op = "calculateFretCumulativePositions"
    /\ ev.out[1] = 0
    /\ ev.out[22] > 90 * FixedOne
    /\ ev.out[22] < 100 * FixedOne


\* C34: in Single Note a target yields at most one point: while the callback
\* scheduled by a correct click of this session is pending, that is until
\* the target is replaced, no step adds to score.
C34_OnePointPerTarget ==
    [][(/\ state.currentScreen = "singleNote"
        /\ \E i \in 1..Len(timeouts) :
               timeouts[i].kind \in SingleNoteAdvanceKinds /\ ~timeouts[i].stale)
           => state'.score <= state.score]_vars


\* C35: at any time at most one delayed next-prompt callback of the running
\* session is pending.
C35_OnePendingCallback ==
    Cardinality({i \in 1..Len(timeouts) : ~timeouts[i].stale}) <= 1


\* C36: in every Triads state clickedTriadNotes has no duplicates, at most 3
\* entries, all of them notes of targetTriad; clickedTriadPositions has one
\* entry per clicked note, and the note at its i-th position is the i-th
\* clicked note.
C36_ClickedTriadConsistent ==
    state.currentScreen = "triads" =>
        LET notes == state.clickedTriadNotes
            positions == state.clickedTriadPositions
        IN /\ \A i, j \in 1..Len(notes) : notes[i] = notes[j] => i = j
           /\ Len(notes) <= 3
           /\ \A i \in 1..Len(notes) : Includes(state.targetTriad.notes, notes[i])
           /\ Len(positions) = Len(notes)
           /\ \A i \in 1..Len(notes) :
                  getNoteAt(positions[i].string, positions[i].fret) = notes[i]


\* C37: no countdown interval runs while the time limit is disabled,
\* timeRemaining is within 0..timeLimit, and it is at least 1 while a
\* countdown is running.  (gameTimer holds at most one interval: startTimer
\* clears it before it sets a new one.)
C37_CountdownConsistent ==
    /\ gameTimer # NoTimer => state.enableTimeLimit /\ state.timeLimit > 0
    /\ state.timeRemaining \in 0..state.timeLimit
    /\ gameTimer # NoTimer => state.timeRemaining >= 1


StartOps == {"startSingleNoteGame", "startFindAllGame", "startGameBtn"}

\* C40: a step that does not start a mode never lowers score or errors and
\* changes at most one of them: score by 1 in Single Note and Triads or by
\* 10 in Find All, errors by 1; a step that lowers either is a start, which
\* sets both to 0.
C40_ScoreAndErrorsSteps ==
    [][/\ (ev'.op \notin StartOps \/ ev'.out # "start") =>
              /\ state'.score - state.score
                     \in {0, IF state.currentScreen = "findAll" THEN 10 ELSE 1}
              /\ state'.errors - state.errors \in {0, 1}
              /\ state'.score = state.score \/ state'.errors = state.errors
       /\ (ev'.op \in StartOps /\ ev'.out = "start") =>
              state'.score = 0 /\ state'.errors = 0]_vars

====
